---- MODULE Spec2Model ----
(***************************************************************************)
(* Process supervision and cancellable task execution of the Uverse        *)
(* backend: workers/pool.py (parse_pdf_in_process, stop_parse_process,     *)
(* _kill_process_tree, the cancel-signal files) together with the callers  *)
(* in routers/documents.py that drive it (start_parse, stop_parse,         *)
(* parse_pdf_task, check_cancelled).                                       *)
(*                                                                         *)
(* Execution contexts.  The coroutines (start_parse, stop_parse,           *)
(* parse_pdf_task / parse_pdf_in_process) run on one asyncio event loop:   *)
(* the code between two awaits is one atomic action here.  The child       *)
(* process runs concurrently with the loop and has its own actions.  The   *)
(* executor thread of wait_process only waits for the child and reads its  *)
(* stdout afterwards: the future it feeds has a result exactly when the    *)
(* child has ended and its stdout is at end of stream.  A wait with a      *)
(* timeout is a choice between the awaited event and the timeout.  The     *)
(* call of documents.py 664-673 is taken with the arguments of the         *)
(* signature of parse_pdf_in_process; _kill_process_tree is its POSIX      *)
(* branch.                                                                 *)
(***************************************************************************)
EXTENDS Integers, Sequences, FiniteSets, TLC

(* ------------------------------ bounds --------------------------------- *)
\* number of parse tasks that can be under way at the same time
MaxCalls == 2
\* number of lines an OS pipe holds before a write to it blocks
PipeCap == 1
\* longest stdout stream handed to result extraction on its own
MaxLen == 3

Calls == 1..MaxCalls
Tasks == {"t1"}
NoCall == 0

(* --------------------- stdout lines and their parsing ------------------ *)
\* The texts a child may print on stdout, one per line:
\*   junk   [INFO] ...                       not JSON
\*   blank  whitespace only
\*   num    123                              JSON, not an object
\*   log    {"type": "log", ...}             object without success / error
\*   ok1    {"success": true, "pages": 1}
\*   ok2    {"success": true, "pages": 2}
\*   err    {"success": false, "error": "boom"}
Lines == {"junk", "blank", "num", "log", "ok1", "ok2", "err"}

\* A result dictionary.  cancelled = FALSE stands for "no cancelled key".
MkResult(s, c, e, p) == [success |-> s, cancelled |-> c, error |-> e, pages |-> p]

NoResult == MkResult(FALSE, FALSE, "none", 0)

\* line.strip(): only a blank line is empty after stripping
strip(line) == IF line = "blank" THEN "" ELSE line

\* json.loads(line): ok = no JSONDecodeError, dict = isinstance(result, dict),
\* keys = the keys of the object, value = the object as a result dictionary
json_loads(line) ==
    CASE line = "ok1" -> [ok |-> TRUE, dict |-> TRUE, keys |-> {"success", "pages"},
                          value |-> MkResult(TRUE, FALSE, "", 1)]
      [] line = "ok2" -> [ok |-> TRUE, dict |-> TRUE, keys |-> {"success", "pages"},
                          value |-> MkResult(TRUE, FALSE, "", 2)]
      [] line = "err" -> [ok |-> TRUE, dict |-> TRUE, keys |-> {"success", "error"},
                          value |-> MkResult(FALSE, FALSE, "boom", 0)]
      [] line = "log" -> [ok |-> TRUE, dict |-> TRUE, keys |-> {"type"},
                          value |-> NoResult]
      [] line = "num" -> [ok |-> TRUE, dict |-> FALSE, keys |-> {},
                          value |-> NoResult]
      [] OTHER        -> [ok |-> FALSE, dict |-> FALSE, keys |-> {},
                          value |-> NoResult]

\* the lines of stdout that carry `key`: non-empty after strip, JSON, an object
HasKey(line, key) ==
    /\ strip(line) # ""
    /\ json_loads(strip(line)).ok
    /\ json_loads(strip(line)).dict
    /\ key \in json_loads(strip(line)).keys

\* stdout.strip().split('\n'): leading and trailing blank lines are dropped
RECURSIVE lstrip_lines(_)
lstrip_lines(s) ==
    IF s # << >> /\ Head(s) = "blank" THEN lstrip_lines(Tail(s)) ELSE s

RECURSIVE rstrip_lines(_)
rstrip_lines(s) ==
    IF s # << >> /\ s[Len(s)] = "blank" THEN rstrip_lines(SubSeq(s, 1, Len(s) - 1)) ELSE s

split_lines(stdout) == rstrip_lines(lstrip_lines(stdout))

\* for line in reversed(lines): the index of the first line, from the end, with `key`
RECURSIVE scan_reversed(_, _, _)
scan_reversed(lines, i, key) ==
    IF i = 0 THEN 0
    ELSE IF HasKey(lines[i], key) THEN i
    ELSE scan_reversed(lines, i - 1, key)

\* a forward scan, the order a slip in the loop would give
RECURSIVE scan_forward(_, _, _)
scan_forward(lines, i, key) ==
    IF i > Len(lines) THEN 0
    ELSE IF HasKey(lines[i], key) THEN i
    ELSE scan_forward(lines, i + 1, key)

first_with_key(lines, key) == scan_forward(lines, 1, key)

last_with_key(lines, key) == scan_reversed(lines, Len(lines), key)

\* the result parse_pdf_in_process builds when no line of stdout is a result
UnparsableResult == MkResult(FALSE, FALSE, "unparsable_output", 0)

extract_forward(stdout) ==
    LET lines == split_lines(stdout)
        i == first_with_key(lines, "success")
    IN  IF i = 0 THEN UnparsableResult ELSE json_loads(strip(lines[i])).value

\* pool.py 639-662: the last line of stdout that is an object with a success key
extract_result(stdout) ==
    LET lines == split_lines(stdout)
        i == last_with_key(lines, "success")
    IN  IF i = 0 THEN UnparsableResult ELSE json_loads(strip(lines[i])).value

\* pool.py 612-637: a non-zero exit; the message is the error of the last object
\* of stdout with an error key, otherwise the exit-code message
exit_failure(stdout) ==
    LET lines == split_lines(stdout)
        i == last_with_key(lines, "error")
    IN  IF stdout # << >> /\ i # 0
        THEN MkResult(FALSE, FALSE, json_loads(strip(lines[i])).value.error, 0)
        ELSE MkResult(FALSE, FALSE, "process_failed_exit_code", 0)

(* ------------------------------ state ---------------------------------- *)
VARIABLES
    parse_tasks,         \* documents.parse_tasks: task id -> status ("none" = no entry)
    cancel_events,       \* documents._cancel_events: task id -> "absent" | "clear" | "set"
    cancel_signal,       \* the task ids whose cancel-signal file exists
    _running_processes,  \* pool._running_processes: task id -> the call whose Popen is stored
    pc,                  \* where each parse task / parse_pdf_in_process call stands
    task_of,             \* the task_id argument of each call
    bound,               \* the local name check_cancelled of the call has been bound (line 553 ran)
    cancelled_during_wait,
    result,              \* what parse_pdf_in_process returned
    process,             \* the child of each call: [st, code, hlp]
    todo,                \* stdout lines the child has still to write
    pipe,                \* stdout lines written and not yet read
    raised,              \* history: cancellation was raised for the call after it started
    stale,               \* history: the cancel-signal file existed when the call started
    dup,                 \* history: the id had a live registered child when the call started
    kill_req,            \* history: stop_parse_process ran while this child was registered and running
    poll_saw,            \* history: what the latest poll iteration of the call found
    serving,             \* the event loop serves requests (FALSE once it is shutting down)
    ext_in,              \* a stdout stream handed to result extraction on its own
    ext_out,             \* the record extraction returned for ext_in ("done" flag inside)
    flow,                \* one walk through parse_pdf_in_process with faults: [plan, stage, outcome, result]
    argv,                \* the child's command line: [mode, inp, stage, cmd, parsed]
    wrk,                 \* one run of the worker's main()
    pg,                  \* the PostgresManager and the server it manages
    probe,               \* one application of is_running(): [file, st, out]
    lk,                  \* the lock _process_lock and the threads that take it
    pre,                 \* one call seen up to the child's first checks: [mode, inp, ...]
    rep,                 \* the report of one ended child: [returncode, stdout, stderr, out]
    kt,                  \* one application of _kill_process_tree with what the signals do
    li                   \* the stderr reader thread of one parse call

\* the variables of the functions looked at one by one
auxVars == << probe, lk, pre, rep, kt, li >>

vars == << parse_tasks, cancel_events, cancel_signal, _running_processes, pc, task_of,
           bound, cancelled_during_wait, result, process, todo, pipe,
           raised, stale, dup, kill_req, poll_saw, serving, ext_in, ext_out, flow, argv, wrk, pg,
           auxVars >>

taskVars == << parse_tasks, cancel_events, cancel_signal, _running_processes >>
callVars == << pc, task_of, bound, cancelled_during_wait, result >>
histVars == << raised, stale, dup, kill_req >>
sideVars  == << ext_in, ext_out, flow, argv, wrk, pg, auxVars >>
restVars  == << serving, sideVars >>

ActiveStatus == {"pending", "parsing", "processing"}

NoProcess == [st |-> "none", code |-> 0, hlp |-> FALSE]

\* process.poll() is None
Alive(p) == p.st \in {"running", "dying"}

\* the event loop runs request handlers and resumes coroutines
LoopFree == serving

\* the call is inside parse_pdf_in_process, at one of its awaits
InFlight(c) == pc[c] \in {"sleep", "await_exit", "await_kill"}

(* ------------------------- cancellation channel ------------------------ *)
\* documents.check_cancelled
check_cancelled(t) == cancel_events[t] = "set"

\* pool._set_cancel_signal
_set_cancel_signal(files, t) == files \cup {t}

keep_cancel_signal(files, t) == files

\* pool._clear_cancel_signal
_clear_cancel_signal(files, t) == files \ {t}

(* ----------------------------- registry -------------------------------- *)
\* with _process_lock: _running_processes[task_id] = process
register(reg, t, c) == [reg EXCEPT ![t] = c]

keep_registered(reg, t) == reg

\* with _process_lock: _running_processes.pop(task_id, None)
unregister(reg, t) == [reg EXCEPT ![t] = NoCall]

(* ------------------------------ kill tree ------------------------------ *)
\* What _kill_process_tree can find: the waits after SIGTERM / SIGKILL see the
\* group end ("confirmed"), or they run out (TimeoutExpired is caught at line 111,
\* process.kill() is sent and True is returned) and the child is still there
\* ("unconfirmed").  A child that has been sent SIGKILL ends sooner or later.
KillOutcomes == {"confirmed", "unconfirmed"}

\* signalling the child alone (process.kill()): its helpers are not reached
kill_child_only(p, o) ==
    IF ~Alive(p) THEN p
    ELSE IF o = "confirmed"
         THEN [p EXCEPT !.st = "exited", !.code = IF p.st = "running" THEN -15 ELSE -9]
    ELSE [p EXCEPT !.st = "dying"]

\* pool._kill_process_tree on POSIX (61-63, 91-116): a child that has ended is left
\* alone; otherwise os.killpg signals the child and the helpers of its group
_kill_process_tree(p, o) ==
    IF ~Alive(p) THEN p
    ELSE IF o = "confirmed"
         THEN [st |-> "exited", code |-> IF p.st = "running" THEN -15 ELSE -9,
               hlp |-> FALSE]
    ELSE [p EXCEPT !.st = "dying"]

(* ------------------------ results of a call ---------------------------- *)
\* pool.py 578-582, 586-590, 606-610
CancelledResult == MkResult(FALSE, TRUE, "cancelled_by_user", 0)
\* pool.py 676-680
TaskCancelledResult == MkResult(FALSE, TRUE, "task_cancelled", 0)
\* pool.py 684-687
ExceptionResult == MkResult(FALSE, FALSE, "exception_in_parse", 0)
\* pool.py 403-406, 433-436
NoWorkerResult == MkResult(FALSE, FALSE, "worker_missing", 0)
\* pool.py 494-497
SpawnErrorResult == MkResult(FALSE, FALSE, "spawn_failed", 0)

\* pool.py 576-662 with the except of 682: what the call returns once the poll loop
\* has ended.  isbound = the loop ran line 553; without it the name check_cancelled
\* of line 577 is an unbound local, and the exception handler answers.
result_after_loop(isbound, cdw, flag, marker, returncode, stdout) ==
    IF ~cdw /\ ~isbound THEN ExceptionResult
    ELSE IF cdw \/ flag THEN CancelledResult
    ELSE IF marker THEN CancelledResult
    ELSE IF returncode # 0
         THEN IF returncode < 0 /\ flag THEN CancelledResult ELSE exit_failure(stdout)
    ELSE extract_result(stdout)

\* documents.py 682-698, 874, 890: the status parse_pdf_task leaves for a result
task_status_after(res, flag) ==
    IF res.cancelled THEN "stopped"
    ELSE IF ~res.success THEN "failed"
    ELSE IF flag THEN "stopped"
    ELSE "completed"

(* ------------------- exceptions inside one call ------------------------ *)
\* The stretches of parse_pdf_in_process in which a statement can raise:
\*   entry    376-437  signal file cleared, command line built     (no handler)
\*   spawn    480-497  Popen                                       (try of 480)
\*   attach   499-506  registry entry, stderr interceptor          (no handler)
\*   poll     508-571  executor future and poll loop               (try of 508)
\*   verdict  572-637  cancel tests, exit-code branch              (try of 508)
\*   extract  639-662  result extraction             (try of 640 inside that of 508)
\*   cleanup  689-703  the finally of the try of 508               (no handler)
Stages == << "entry", "spawn", "attach", "poll", "verdict", "extract", "cleanup" >>

StageSet == { Stages[i] : i \in 1..Len(Stages) }

\* what can happen in a stretch: nothing, a statement raises an Exception, or (at
\* an await, which only the poll stretch has) asyncio.CancelledError arrives
Faults(stage) == IF stage = "poll" THEN {"none", "error", "cancel"} ELSE {"none", "error"}

Plans == { f \in [StageSet -> {"none", "error", "cancel"}] :
              \A st \in StageSet : f[st] \in Faults(st) }

NoPlan == [st \in StageSet |-> "none"]

\* pool.py 664-669
ParseErrorResult == MkResult(FALSE, FALSE, "parse_result_failed", 0)

NoFlow == [plan |-> NoPlan, stage |-> "off", outcome |-> "none", result |-> NoResult]

(* ---------------------- the child's command line ---------------------- *)
\* pdf_wrapper.py 277-285: the options main() declares, and those with required=True
Options == { "--pdf-path", "--output-dir", "--config-path", "--doc-id", "--task-id",
             "--log-file", "--filename", "--device", "--cancel-check-file" }

Required == { "--pdf-path", "--output-dir", "--config-path", "--doc-id", "--task-id",
              "--log-file" }

\* pool.py 33-39
_get_cancel_signal_path(task_id) == "cancel_" \o task_id \o ".signal"

\* pool.py 388-396 and 411-424: the argument list handed to Popen
build_cmd(mode, a) ==
    ( IF mode \in {"exe", "exe_missing"} THEN << "pdf-worker" >>
                                          ELSE << "python", "pdf_wrapper.py" >> )
    \o << "--pdf-path", a.pdf_path,
          "--output-dir", a.output_dir,
          "--config-path", a.config_path,
          "--doc-id", a.doc_id,
          "--device", a.device,
          "--cancel-check-file", _get_cancel_signal_path(a.task_id) >>

\* the options a command line carries
options_of(cmd) == { cmd[i] : i \in { j \in 1..Len(cmd) : cmd[j] \in Options } }

\* pdf_wrapper.py 263-287: parse_args; a missing required option goes to
\* SilentArgumentParser.error, which prints a failure record and exits with 1
parse_args(cmd) ==
    LET missing == Required \ options_of(cmd)
    IN  [ok |-> missing = {}, missing |-> missing, exit |-> IF missing = {} THEN 0 ELSE 1]

NoParsed == [ok |-> FALSE, missing |-> {}, exit |-> 0]

NoInp == [pdf_path |-> "", output_dir |-> "", config_path |-> "", doc_id |-> "",
          device |-> "", task_id |-> ""]

NoArgv == [mode |-> "exe", inp |-> NoInp, stage |-> "off", cmd |-> << >>, parsed |-> NoParsed]

\* the places of main() where a statement can raise, "none" for a clean run
RaisePoints == { "none", "load", "do_parse", "collect", "final_log" }

NoWrkPlan == [args_ok |-> TRUE, pdf_exists |-> TRUE, cancel_check_file |-> FALSE,
              raise_at |-> "none"]

\* exit = -1: main() has not ended
NoWrk == [plan |-> NoWrkPlan, stage |-> "off", marker |-> FALSE, printed |-> << >>, exit |-> -1]

(* --------------------------- PostgresManager --------------------------- *)
\* The manager's methods are functions on a record p:
\*   installed  pg_ctl and initdb exist
\*   data       the data directory: "absent", "empty" (no PG_VERSION), "good", "corrupt"
\*   backup     a data_backup_<time> directory holds a former data directory
\*   lost       a former data directory was removed and no copy of it was kept
\*   conf       postgresql.conf carries the manager's port: "unset", "set"
\*   srv        the server process: "down", "launched" (no postmaster.pid yet),
\*              "starting" (postmaster.pid written, no connections yet), "up"
\*   moved      the directory the live server runs on is no longer data_dir
\*   pid_file   postgres.pid of the manager: "absent", "current" (the pid of the
\*              live server), "stale" (a pid that is not the server's)
\*   reused     the stale pid is the pid of some other live process
\*   pc, phase, elapsed, iter_at   where start() stands; the clock of _wait_for_ready
\*   rv, ret    value of the method just applied; value the public call returned
\* and, written down for the call in progress or the last one made:
\*   op, began, touched, repairs, retries, wait_reason, wait_at, repair_on, stopped
\* The POSIX branches are the ones taken.  Time is counted in ticks of 15 seconds.

\* postgres_manager.py 374: _wait_for_ready(timeout=60)
StartTimeout == 4

\* postgres_manager.py 768: _wait_for_ready(timeout=45)
RetryTimeout == 3

\* the longest one iteration of _wait_for_ready takes, in ticks (two queries with
\* a timeout of 5 s each, and what the scheduler adds)
MaxStep == 2

\* the repairs and retries of one call are counted up to here
CountCap == 2

bump(n) == IF n < CountCap THEN n + 1 ELSE n

NoStop == [seen |-> FALSE, began |-> "down", visible |-> FALSE, cmd |-> FALSE,
           graceful |-> "none", kill |-> "none"]

NoPg == [installed |-> TRUE, data |-> "absent", backup |-> FALSE, lost |-> FALSE,
         conf |-> "unset", srv |-> "down", moved |-> FALSE, pid_file |-> "absent",
         reused |-> FALSE, pc |-> "off", phase |-> "first", elapsed |-> 0, iter_at |-> 0,
         rv |-> FALSE, ret |-> "none", op |-> "none", began |-> FALSE, touched |-> {},
         repairs |-> 0, retries |-> 0, wait_reason |-> "none", wait_at |-> 0,
         repair_on |-> "none", stopped |-> NoStop]

\* postgres_manager.py 71-73
is_installed(p) == p.installed

\* postgres_manager.py 75-80
is_initialized(p) == p.data \in {"good", "corrupt"}

\* postgres_manager.py 106-117: pg_ctl status -D data_dir reports a running server
_check_status_via_pg_ctl(p) == p.srv \in {"starting", "up"} /\ ~p.moved

\* postgres_manager.py 88-102: os.kill(pid, 0) for the pid read from postgres.pid
pid_alive(p) == p.pid_file = "current" \/ (p.pid_file = "stale" /\ p.reused)

\* what is_running would be if it never found a server
never_running(p) == FALSE

\* postgres_manager.py 82-104
is_running(p) ==
    IF p.pid_file = "absent" THEN _check_status_via_pg_ctl(p)
    ELSE IF pid_alive(p) THEN TRUE
    ELSE _check_status_via_pg_ctl(p)

\* postgres_manager.py 119-198; initdb_ok is the exit status of initdb
init_database(p, initdb_ok) ==
    IF ~is_installed(p) THEN [p EXCEPT !.rv = FALSE]
    ELSE IF is_initialized(p) THEN [p EXCEPT !.rv = TRUE]
    ELSE [p EXCEPT !.data = IF initdb_ok THEN "good" ELSE "empty",
                   !.touched = @ \cup {"data"},
                   !.rv = initdb_ok]

\* postgres_manager.py 212-279
_setup_postgresql_conf(p) == [p EXCEPT !.conf = "set", !.touched = @ \cup {"conf"}]

\* postgres_manager.py 321-368, 743-753: pg_ctl start; a server comes to life
\* only when none lives
pg_ctl_start(p) ==
    IF p.srv = "down"
    THEN [p EXCEPT !.srv = "launched", !.moved = FALSE, !.touched = @ \cup {"launch"}]
    ELSE [p EXCEPT !.touched = @ \cup {"launch"}]

\* postgres_manager.py 416-427: postgres.pid gets the pid of postmaster.pid
_save_pid(p) ==
    IF _check_status_via_pg_ctl(p) THEN [p EXCEPT !.pid_file = "current", !.reused = FALSE]
    ELSE p

\* postgres_manager.py 691-702: SIGKILL to the pid read from postgres.pid
_force_stop(p) ==
    CASE p.pid_file = "current" ->
            [p EXCEPT !.srv = "down", !.pid_file = "stale", !.stopped.kill = "server"]
      [] p.pid_file = "stale" /\ p.reused ->
            [p EXCEPT !.reused = FALSE, !.stopped.kill = "other"]
      [] OTHER -> p

\* what pg_ctl stop -m fast can come back with (postgres_manager.py 629-648):
\* status 0, another status, status with a "not running" message, no answer
\* within the timeout
GracefulOutcomes(p) ==
    IF _check_status_via_pg_ctl(p) THEN {"ok", "fail", "timeout"} ELSE {"fail", "notrunning"}

\* postgres_manager.py 663-702 after a failed graceful stop, taken out so that
\* the issue of the kill can be told from its absence
force_after(p, g) == IF g \in {"fail", "timeout"} THEN _force_stop(p) ELSE p

\* postgres_manager.py 603-661
stop(p, g) ==
    LET q == [p EXCEPT !.stopped = [seen |-> TRUE, began |-> p.srv,
                                    visible |-> _check_status_via_pg_ctl(p),
                                    cmd |-> FALSE, graceful |-> "none", kill |-> "none"]]
    IN  IF ~is_running(q)
        THEN [q EXCEPT !.pid_file = "absent", !.reused = FALSE]
        ELSE LET r == [q EXCEPT !.stopped.cmd = TRUE, !.stopped.graceful = g,
                                !.srv = IF g = "ok" THEN "down" ELSE @]
                 f == force_after(r, g)
             IN  [f EXCEPT !.pid_file = "absent", !.reused = FALSE]

\* postgres_manager.py 704-733: move_ok, rmtree_ok say whether shutil.move and
\* shutil.rmtree go through
_auto_reset_data_dir(p, move_ok, rmtree_ok, initdb_ok) ==
    IF p.data = "absent" THEN init_database(p, initdb_ok)
    ELSE IF move_ok
         THEN init_database([p EXCEPT !.data = "absent", !.backup = TRUE,
                                      !.moved = (p.srv # "down"),
                                      !.touched = @ \cup {"data"}], initdb_ok)
    ELSE IF rmtree_ok
         THEN init_database([p EXCEPT !.data = "absent", !.lost = TRUE,
                                      !.moved = (p.srv # "down"),
                                      !.touched = @ \cup {"data"}], initdb_ok)
    ELSE [p EXCEPT !.rv = FALSE]

\* postgres_manager.py 374, 768
timeout_of(phase) == IF phase = "first" THEN StartTimeout ELSE RetryTimeout

\* a loop test that lets one more iteration start when the time is just up
loop_continues_at_timeout(elapsed, timeout) == elapsed <= timeout

\* postgres_manager.py 458: while time.time() - start_time < timeout
loop_continues(elapsed, timeout) == elapsed < timeout

\* a manager that repairs after every failed readiness wait
always_repair(phase) == "repair"

\* postgres_manager.py 374-388 against 768-770: what follows a readiness wait
\* that returned False
after_wait_failed(phase) == IF phase = "first" THEN "repair" ELSE "return"

\* a public call returns
returns(p, v) == [p EXCEPT !.pc = "idle", !.ret = IF v THEN "true" ELSE "false"]

(* ----------------------- is_running(), one call ------------------------ *)
\* postgres.pid as open(), int() and os.kill(pid, 0) find it:
\*   "absent"      no such file
\*   "unopenable"  open() raises OSError
\*   "garbage"     int() raises ValueError
\*   "dead"        os.kill raises ProcessLookupError
\*   "foreign"     os.kill raises PermissionError: the pid belongs to another user
\*   "live"        os.kill returns
PidFiles == { "absent", "unopenable", "garbage", "dead", "foreign", "live" }

\* what reading and probing raises, "none" when it returns
raised_by(file) ==
    CASE file = "unopenable" -> "OSError"
      [] file = "garbage"    -> "ValueError"
      [] file = "dead"       -> "ProcessLookupError"
      [] file = "foreign"    -> "PermissionError"
      [] OTHER               -> "none"

\* the classes of the exception hierarchy an exception belongs to
classes_of(exc) ==
    CASE exc \in {"ProcessLookupError", "PermissionError"} -> {exc, "OSError", "Exception"}
      [] exc = "none" -> {}
      [] OTHER -> {exc, "Exception"}

\* a handler that lets the operating system's errors through
ExceptValueErrorOnly == { "ValueError" }

\* postgres_manager.py 103: except (ValueError, OSError, ProcessLookupError)
ExceptOfIsRunning == { "ValueError", "OSError", "ProcessLookupError" }

\* pg_ctl status as subprocess.run finds it: the call raises, or it returns
\* an exit status (0 running, 3 not running, 4 no data directory) and a text
StatusRuns == [ raises : BOOLEAN, returncode : {0, 3, 4}, says_running : BOOLEAN ]

\* postgres_manager.py 106-117, on one run of the command
status_result(st) ==
    IF st.raises THEN "false"
    ELSE IF st.returncode = 0 /\ st.says_running THEN "true" ELSE "false"

\* postgres_manager.py 82-104, on one state of the pid file and one run of the
\* command: "true", "false", or "raised" when an exception leaves the method
is_running_once(file, st) ==
    IF file = "absent" THEN status_result(st)
    ELSE IF raised_by(file) = "none" THEN "true"
    ELSE IF classes_of(raised_by(file)) \cap ExceptOfIsRunning # {} THEN status_result(st)
    ELSE "raised"

NoStatusRun == [raises |-> FALSE, returncode |-> 3, says_running |-> FALSE]

NoProbe == [file |-> "absent", st |-> NoStatusRun, out |-> "off"]

(* --------------------------- _process_lock ----------------------------- *)
\* the execution contexts that reach _running_processes: the event loop inside
\* parse_pdf_in_process, and the contexts stop_parse_process is called from
LockThreads == { "loop", "req1", "req2" }

LockTasks == { "t1", "t2" }

\* the three places that use the map: pool.py 499-501, 139-146, 693-695
LockOps(th) == IF th = "loop" THEN {"register", "remove"} ELSE {"lookup"}

\* a block that is entered without the lock being taken
without_lock(l, th) == l

\* pool.py 140, 500, 694: with _process_lock
with_lock(l, th) == [l EXCEPT !.holder = th]

\* the end of the with block
release(l, th) == [l EXCEPT !.holder = IF @ = th THEN "none" ELSE @]

\* a read or write of the map by th; bare remembers one made without the lock
touch_map(l, th) == [l EXCEPT !.bare = @ \/ l.holder # th, !.touches = TRUE]

NoLk == [holder |-> "none", at |-> [th \in LockThreads |-> "off"],
         tgt |-> [th \in LockThreads |-> "t1"], map |-> {}, bare |-> FALSE,
         touches |-> FALSE]

(* ----------------- what is checked before the spawn -------------------- *)
\* pool.py 401-406
WorkerMissingResult == MkResult(FALSE, FALSE, "worker_executable_missing", 0)

\* pool.py 431-436
WrapperMissingResult == MkResult(FALSE, FALSE, "wrapper_script_missing", 0)

\* pdf_wrapper.py 268-272 and 301-306 as the parent reads them back from stdout
ChildArgsResult == MkResult(FALSE, FALSE, "child_argument_error", 0)

ChildPdfMissingResult == MkResult(FALSE, FALSE, "child_pdf_missing", 0)

\* pool.py 383-437: what the function tests before Popen; NoResult lets it go on
precheck(mode, pdf_exists) ==
    CASE mode = "exe_missing"    -> WorkerMissingResult
      [] mode = "script_missing" -> WrapperMissingResult
      [] OTHER                   -> NoResult

NoPre == [mode |-> "exe", inp |-> NoInp, pdf_exists |-> TRUE, popen_ok |-> TRUE,
          stage |-> "off", spawned |-> FALSE, result |-> NoResult]

(* --------------------- the report of an ended child -------------------- *)
\* the longest stdout and stderr looked at
RepLen == 2

\* what the child may have written to stderr, by lines
StderrLines == { "trace", "warn" }

\* pool.py 592-662 once the cancel tests of 577-590 have passed: the record
\* returned, whether its message names the exit code (629), and the stderr
\* lines put into it (none: wait_process returns returncode and stdout only,
\* 513-527, stderr goes to the interceptor)
report(returncode, stdout, stderr) ==
    LET res == IF returncode # 0 THEN exit_failure(stdout) ELSE extract_result(stdout)
    IN  [ res |-> res,
          names_code |-> ( returncode # 0 /\ res.error = "process_failed_exit_code" ),
          stderr_tail |-> << >> ]

NoReport == [res |-> NoResult, names_code |-> FALSE, stderr_tail |-> << >>]

NoRep == [returncode |-> 0, stdout |-> << >>, stderr |-> << >>, done |-> FALSE,
          out |-> NoReport]

(* ------------------ _kill_process_tree, step by step ------------------- *)
\* What one call meets (POSIX branch):
\*   child        "running" or "exited" when the call begins
\*   hlp          a descendant of the child lives in its process group
\*   term_child   the child ends within 3 s of SIGTERM
\*   term_hlp     the descendant ends on SIGTERM
\*   kill_seen    the child's end is seen within 1 s of SIGKILL
\*   killpg       what os.getpgid / os.killpg(SIGTERM) do: "ok", "lookup"
\*                (ProcessLookupError: the child has just ended), "perm"
\*                (another exception)
\*   kill_raises  process.kill() of the fallback raises
KtPlans == [ child : {"running", "exited"}, hlp : BOOLEAN, term_child : BOOLEAN,
             term_hlp : BOOLEAN, kill_seen : BOOLEAN, killpg : {"ok", "lookup", "perm"},
             kill_raises : BOOLEAN ]

NoKtPlan == [child |-> "exited", hlp |-> FALSE, term_child |-> TRUE, term_hlp |-> TRUE,
             kill_seen |-> TRUE, killpg |-> "ok", kill_raises |-> FALSE]

\* child: "running", "exited" (the process has ended), "signalled" (SIGKILL
\* sent, end not seen)
NoKt == [plan |-> NoKtPlan, stage |-> "off", child |-> "exited", hlp |-> FALSE, ret |-> "none"]

kt_returns(k, v) == [k EXCEPT !.stage = "returned", !.ret = IF v THEN "true" ELSE "false"]

\* pool.py 112-119: the handler of 'except Exception' in the POSIX branch
kt_fallback(k) ==
    IF k.plan.kill_raises THEN kt_returns(k, FALSE)
    ELSE kt_returns([k EXCEPT !.child = IF @ = "running" THEN "signalled" ELSE @], TRUE)

(* --------------------- LogInterceptor, line by line -------------------- *)
\* The lines a child writes to stderr, by what _intercept_thread makes of them:
\*   "blank"  empty after strip()
\*   "text"   not JSON, or a JSON object whose type is not "log"
\*   "jlog"   a JSON object with type "log"
\*   "jval"   valid JSON that is not an object (a number, a string, a list):
\*            data.get raises AttributeError
LineKinds == {"blank", "text", "jlog", "jval"}

LiLen == 3

RECURSIVE SeqsUpTo(_, _)
SeqsUpTo(S, n) ==
    IF n = 0 THEN { << >> }
    ELSE LET shorter == SeqsUpTo(S, n - 1) IN
         shorter \cup { Append(q, x) : q \in { r \in shorter : Len(r) = n - 1 }, x \in S }

StderrScripts == SeqsUpTo(LineKinds, LiLen)

\* script: the lines the child writes, in order; at: how many it has written;
\* unread: the numbers of the written lines still in the pipe; fwd: the numbers of
\* the lines handed to log_callback, in the order of the calls
NoLi == [script |-> << >>, at |-> 0, unread |-> << >>, child |-> "exited", pc |-> "off",
         _stopped |-> FALSE, fwd |-> << >>]

\* pool.py 317-341: one line read by the thread; "skip" (continue), "forward"
\* (log_callback is called once), "break" (the exception handler of 338)
handle_line(kind) ==
    CASE kind = "blank" -> "skip"
      [] kind = "jval" -> "break"
      [] OTHER -> "forward"

\* the numbers of the non-empty lines among the first n of a script
RECURSIVE non_empty(_, _)
non_empty(script, n) ==
    IF n = 0 THEN << >>
    ELSE IF script[n] = "blank" THEN non_empty(script, n - 1)
         ELSE Append(non_empty(script, n - 1), n)

IsPrefix(a, b) == Len(a) <= Len(b) /\ \A i \in 1..Len(a) : a[i] = b[i]

AuxAtRest ==
    /\ probe = NoProbe
    /\ lk = NoLk
    /\ pre = NoPre
    /\ rep = NoRep
    /\ kt = NoKt
    /\ li = NoLi

(* ------------------------------- Init ---------------------------------- *)
\* the record of a call that has not begun
InitCalls ==
    /\ pc = [c \in Calls |-> "idle"]
    /\ task_of = [c \in Calls |-> "t1"]
    /\ bound = [c \in Calls |-> FALSE]
    /\ cancelled_during_wait = [c \in Calls |-> FALSE]
    /\ result = [c \in Calls |-> NoResult]
    /\ process = [c \in Calls |-> NoProcess]
    /\ todo = [c \in Calls |-> << >>]
    /\ pipe = [c \in Calls |-> << >>]
    /\ raised = [c \in Calls |-> FALSE]
    /\ stale = [c \in Calls |-> FALSE]
    /\ dup = [c \in Calls |-> FALSE]
    /\ kill_req = [c \in Calls |-> FALSE]
    /\ poll_saw = [c \in Calls |-> "none"]

\* No task, no event, no signal file, an empty registry.
Init ==
    /\ parse_tasks = [t \in Tasks |-> "none"]
    /\ cancel_events = [t \in Tasks |-> "absent"]
    /\ cancel_signal = {}
    /\ _running_processes = [t \in Tasks |-> NoCall]
    /\ InitCalls
    /\ serving = TRUE
    /\ ext_in = << >>
    /\ ext_out = [done |-> FALSE, value |-> NoResult]
    /\ flow = NoFlow
    /\ argv = NoArgv
    /\ wrk = NoWrk
    /\ pg = NoPg
    /\ AuxAtRest

(* ------------------------------ callers -------------------------------- *)
\* a call record that is not in use: the call has not begun, or it has returned
\* and its child is gone
Free(c) == pc[c] \in {"idle", "done"} /\ ~Alive(process[c])

\* documents.start_parse: a task that is pending / parsing / processing is answered
\* 409; otherwise the old cancel event is dropped, the task becomes pending, a fresh
\* event is stored and parse_pdf_task is scheduled (in the first free call record;
\* the records of the calls that are over are wiped).
start_parse(c, t) ==
    LET wipe(f, v) == [d \in Calls |-> IF Free(d) THEN v ELSE f[d]] IN
    /\ LoopFree
    /\ Free(c)
    /\ \A d \in Calls : d < c => ~Free(d)
    /\ parse_tasks[t] \notin ActiveStatus
    /\ parse_tasks' = [parse_tasks EXCEPT ![t] = "pending"]
    /\ cancel_events' = [cancel_events EXCEPT ![t] = "clear"]
    /\ pc' = [wipe(pc, "idle") EXCEPT ![c] = "pending"]
    /\ task_of' = [wipe(task_of, "t1") EXCEPT ![c] = t]
    /\ bound' = wipe(bound, FALSE)
    /\ cancelled_during_wait' = wipe(cancelled_during_wait, FALSE)
    /\ result' = wipe(result, NoResult)
    /\ process' = wipe(process, NoProcess)
    /\ todo' = wipe(todo, << >>)
    /\ pipe' = wipe(pipe, << >>)
    /\ raised' = wipe(raised, FALSE)
    /\ stale' = wipe(stale, FALSE)
    /\ dup' = wipe(dup, FALSE)
    /\ kill_req' = wipe(kill_req, FALSE)
    /\ poll_saw' = wipe(poll_saw, "none")
    /\ UNCHANGED << cancel_signal, _running_processes, restVars >>

\* documents.parse_pdf_task up to the call (597-601, 629-633): cancelled before it ran
parse_task_cancelled_early(c) ==
    /\ LoopFree
    /\ pc[c] = "pending"
    /\ check_cancelled(task_of[c])
    /\ parse_tasks' = [parse_tasks EXCEPT ![task_of[c]] = "stopped"]
    /\ pc' = [pc EXCEPT ![c] = "done"]
    /\ UNCHANGED << cancel_events, cancel_signal, _running_processes, task_of, bound,
                    cancelled_during_wait, result, process, todo, pipe,
                    histVars, poll_saw, restVars >>

\* parse_pdf_in_process 376-497 when it returns before a child exists: the signal
\* file is cleared, then the worker is missing (why = "no_worker") or Popen raises
\* (why = "spawn_error"); parse_pdf_task turns the failure into status failed.
parse_pdf_in_process_nospawn(c, why) ==
    LET t == task_of[c] IN
    /\ LoopFree
    /\ pc[c] = "pending"
    /\ ~check_cancelled(t)
    /\ why \in {"no_worker", "spawn_error"}
    /\ cancel_signal' = _clear_cancel_signal(cancel_signal, t)
    /\ result' = [result EXCEPT ![c] =
                     IF why = "no_worker" THEN NoWorkerResult ELSE SpawnErrorResult]
    /\ parse_tasks' = [parse_tasks EXCEPT ![t] = "failed"]
    /\ pc' = [pc EXCEPT ![c] = "done"]
    /\ stale' = [stale EXCEPT ![c] = t \in cancel_signal]
    /\ dup' = [dup EXCEPT ![c] = _running_processes[t] # NoCall
                                  /\ Alive(process[_running_processes[t]])]
    /\ UNCHANGED << cancel_events, _running_processes, task_of, bound,
                    cancelled_during_wait, process, todo, pipe,
                    raised, kill_req, poll_saw, restVars >>

(* ------------------------------ poll loop ------------------------------ *)
\* what one iteration of the loop of 540-571 finds: the child has ended ("exit"),
\* the child lives and check_cancelled answers true ("flag"), the child lives and
\* only the cancel-signal file exists ("marker"), or nothing ("clear")
poll_finds(p, flag, marker) ==
    IF ~Alive(p) THEN "exit"
    ELSE IF flag THEN "flag"
    ELSE IF marker THEN "marker"
    ELSE "clear"

\* an iteration that never acts on a cancellation
poll_branch_no_cancel(found) ==
    IF found = "exit" THEN "await_exit" ELSE "sleep"

\* the branch an iteration takes: 542-549 await the result of an ended child,
\* 554-566 kill on check_cancelled, 571 sleep
poll_branch(found) ==
    IF found = "exit" THEN "await_exit"
    ELSE IF found = "flag" THEN "await_kill"
    ELSE "sleep"

\* the child right after Popen: running, or, when `early` is an exit status, ended
\* by itself before the parent looks at it for the first time
spawned(kind, early) ==
    IF early = "no"
    THEN [st |-> "running", code |-> 0, hlp |-> kind.hlp]
    ELSE [st |-> "exited", code |-> IF early = "exit0" THEN 0 ELSE 1, hlp |-> FALSE]

\* parse_pdf_task 603 and parse_pdf_in_process 376-571 up to the first await, a
\* stretch in which no other coroutine runs: the signal file is cleared, the child
\* is spawned in its own process group (`kind` is what it will do), the Popen is
\* stored under the task id, wait_process is handed to the executor, the first
\* iteration of the poll loop runs.  A child that prints little can have ended by
\* then.
parse_pdf_in_process_spawn(c, kind, early) ==
    LET t == task_of[c]
        p == spawned(kind, early)
        found == poll_finds(p, FALSE, FALSE)
    IN
    /\ LoopFree
    /\ pc[c] = "pending"
    /\ ~check_cancelled(t)
    /\ early \in {"no", "exit0", "exit1"}
    /\ early # "no" => Len(kind.out) <= PipeCap
    /\ parse_tasks' = [parse_tasks EXCEPT ![t] = "parsing"]
    /\ cancel_signal' = _clear_cancel_signal(cancel_signal, t)
    /\ process' = [process EXCEPT ![c] = p]
    /\ todo' = [todo EXCEPT ![c] = IF early = "no" THEN kind.out ELSE << >>]
    /\ pipe' = [pipe EXCEPT ![c] = IF early = "no" THEN << >> ELSE kind.out]
    /\ _running_processes' = register(_running_processes, t, c)
    /\ pc' = [pc EXCEPT ![c] = poll_branch(found)]
    /\ bound' = [bound EXCEPT ![c] = found # "exit"]
    /\ poll_saw' = [poll_saw EXCEPT ![c] = found]
    /\ stale' = [stale EXCEPT ![c] = t \in cancel_signal]
    /\ dup' = [dup EXCEPT ![c] = _running_processes[t] # NoCall
                                  /\ Alive(process[_running_processes[t]])]
    /\ UNCHANGED << cancel_events, task_of, cancelled_during_wait, result,
                    raised, kill_req, restVars >>

\* pool.py 540-571, an iteration of the loop after asyncio.sleep(0.5) has returned
poll_iteration(c, o) ==
    LET t == task_of[c]
        found == poll_finds(process[c], check_cancelled(t), t \in cancel_signal)
        next == poll_branch(found) IN
    /\ LoopFree
    /\ pc[c] = "sleep"
    /\ o \in KillOutcomes
    /\ next # "await_kill" => o = "confirmed"
    /\ pc' = [pc EXCEPT ![c] = next]
    /\ bound' = [bound EXCEPT ![c] = @ \/ found # "exit"]
    /\ cancelled_during_wait' = [cancelled_during_wait EXCEPT ![c] = @ \/ next = "await_kill"]
    /\ process' = [process EXCEPT ![c] =
                      IF next = "await_kill" THEN _kill_process_tree(@, o) ELSE @]
    /\ poll_saw' = [poll_saw EXCEPT ![c] = found]
    /\ UNCHANGED << taskVars, task_of, result, todo, pipe, histVars, restVars >>

(* --------------------- wait_process in the executor -------------------- *)
\* pool.py 513-527: process.wait() returns once the child has ended, then
\* process.stdout.read() returns at end of stream, that is when no helper holds
\* the write end any more.  Nothing is read from stdout before.
wait_process_returns(p) == p.st = "exited" /\ ~p.hlp

(* ------------------------ the end of the call -------------------------- *)
\* the finally of 689-703 with the result `res`, and parse_pdf_task's handling of
\* the result: the registry entry is popped, the signal file cleared, a child that
\* still lives is killed once more (`p` is the child after that).  The locals of
\* the call and the pipe of its Popen go away with the return.
finish(c, res, p) ==
    LET t == task_of[c] IN
    /\ result' = [result EXCEPT ![c] = res]
    /\ _running_processes' = unregister(_running_processes, t)
    /\ cancel_signal' = _clear_cancel_signal(cancel_signal, t)
    /\ process' = [process EXCEPT ![c] = p]
    /\ parse_tasks' = [parse_tasks EXCEPT ![t] = task_status_after(res, check_cancelled(t))]
    /\ pc' = [pc EXCEPT ![c] = "done"]
    /\ bound' = [bound EXCEPT ![c] = FALSE]
    /\ todo' = [todo EXCEPT ![c] = << >>]
    /\ pipe' = [pipe EXCEPT ![c] = << >>]
    /\ poll_saw' = [poll_saw EXCEPT ![c] = "none"]
    /\ UNCHANGED << cancel_events, task_of, cancelled_during_wait, stale, dup, kill_req,
                    sideVars >>

\* pool.py 545 or 560-563: the awaited future delivers (returncode, stdout), the
\* exit status of the child and all it has printed
await_done(c) ==
    LET t == task_of[c] IN
    /\ LoopFree
    /\ pc[c] \in {"await_exit", "await_kill"}
    /\ wait_process_returns(process[c])
    /\ finish(c, result_after_loop(bound[c], cancelled_during_wait[c], check_cancelled(t),
                                   t \in cancel_signal, process[c].code, pipe[c]),
              process[c])
    /\ UNCHANGED << raised, serving >>

\* pool.py 564-565: the 5 s of wait_for run out after a kill; returncode, stdout = -1, ""
await_kill_timeout(c, o) ==
    LET t == task_of[c] IN
    /\ LoopFree
    /\ pc[c] = "await_kill"
    /\ ~wait_process_returns(process[c])
    /\ o \in KillOutcomes
    /\ ~Alive(process[c]) => o = "confirmed"
    /\ finish(c, result_after_loop(bound[c], cancelled_during_wait[c], check_cancelled(t),
                                   t \in cancel_signal, -1, << >>),
              _kill_process_tree(process[c], o))
    /\ UNCHANGED << raised, serving >>

\* pool.py 671-680: the server stops and the event loop cancels its tasks one after
\* the other (nothing in the repository cancels a parse task while the server
\* runs); CancelledError arrives at the await the call stands at, the handler
\* kills the tree (o1), the finally kills again if the child still lives (o2).
\* No request is served any more.
task_cancelled(c, o1, o2) ==
    LET p1 == _kill_process_tree(process[c], o1) IN
    /\ InFlight(c)
    /\ \A d \in Calls : d < c => ~InFlight(d)
    /\ o1 \in KillOutcomes
    /\ o2 \in KillOutcomes
    /\ ~Alive(process[c]) => o1 = "confirmed"
    /\ ~Alive(p1) => o2 = "confirmed"
    /\ finish(c, TaskCancelledResult, _kill_process_tree(p1, o2))
    /\ raised' = [raised EXCEPT ![c] = TRUE]
    /\ serving' = FALSE

(* ------------------------------ stop ----------------------------------- *)
\* documents.stop_parse 490-530 with pool.stop_parse_process 124-149: the event of
\* the task is set, the signal file is created, the registered child is killed
\* under _process_lock and left in the registry, the task becomes stopped
stop_parse(t, o) ==
    LET c == _running_processes[t] IN
    /\ LoopFree
    /\ parse_tasks[t] \in ActiveStatus
    /\ cancel_events' = [cancel_events EXCEPT ![t] = IF @ = "absent" THEN @ ELSE "set"]
    /\ cancel_signal' = _set_cancel_signal(cancel_signal, t)
    /\ IF c # NoCall
       THEN /\ o \in KillOutcomes
            /\ ~Alive(process[c]) => o = "confirmed"
            /\ process' = [process EXCEPT ![c] = _kill_process_tree(@, o)]
            /\ kill_req' = [kill_req EXCEPT ![c] = @ \/ Alive(process[c])]
       ELSE /\ o = "confirmed"
            /\ UNCHANGED << process, kill_req >>
    /\ parse_tasks' = [parse_tasks EXCEPT ![t] = "stopped"]
    /\ raised' = [d \in Calls |-> raised[d] \/ (task_of[d] = t /\ InFlight(d))]
    /\ UNCHANGED << _running_processes, callVars, todo, pipe, stale, dup,
                    poll_saw, restVars >>

(* ------------------------------ the child ------------------------------ *)
\* the child prints a stdout line that is not its last; the write blocks while the
\* pipe is full
child_write(c) ==
    /\ process[c].st = "running"
    /\ Len(todo[c]) > 1
    /\ Len(pipe[c]) < PipeCap
    /\ pipe' = [pipe EXCEPT ![c] = Append(@, Head(todo[c]))]
    /\ todo' = [todo EXCEPT ![c] = Tail(@)]
    /\ UNCHANGED << taskVars, callVars, process, histVars, poll_saw, restVars >>

\* the child prints its last line, which blocks while the pipe is full, and ends by
\* itself with exit status 0 or 1; its helpers have ended before
child_exit(c, code) ==
    /\ process[c].st = "running"
    /\ Len(todo[c]) = 1
    /\ Len(pipe[c]) < PipeCap
    /\ code \in {0, 1}
    /\ pipe' = [pipe EXCEPT ![c] = Append(@, Head(todo[c]))]
    /\ todo' = [todo EXCEPT ![c] = << >>]
    /\ process' = [process EXCEPT ![c] = [st |-> "exited", code |-> code, hlp |-> FALSE]]
    /\ UNCHANGED << taskVars, callVars, histVars, poll_saw, restVars >>

\* a group that was sent SIGKILL ends
child_dies(c) ==
    /\ process[c].st = "dying"
    /\ process' = [process EXCEPT ![c] = [st |-> "exited", code |-> -9, hlp |-> FALSE]]
    /\ UNCHANGED << taskVars, callVars, todo, pipe, histVars, poll_saw, restVars >>

(* ------------------------- specifications ------------------------------ *)
\* noise that fills the pipe, then the result line
LongScript == [i \in 1..(PipeCap + 1) |-> IF i = PipeCap + 1 THEN "ok1" ELSE "junk"]

\* the children of the supervision model: a small conversion that prints its result
\* line, and a big one that runs helper processes in its process group (they
\* inherit its stdout) and prints more than the pipe holds
Children == { [out |-> << "ok1" >>, hlp |-> FALSE], [out |-> LongScript, hlp |-> TRUE] }

Next ==
    \/ \E c \in Calls, t \in Tasks : start_parse(c, t)
    \/ \E c \in Calls : parse_task_cancelled_early(c)
    \/ \E c \in Calls, why \in {"no_worker", "spawn_error"} : parse_pdf_in_process_nospawn(c, why)
    \/ \E c \in Calls, kind \in Children, early \in {"no", "exit0", "exit1"} :
          parse_pdf_in_process_spawn(c, kind, early)
    \/ \E c \in Calls, o \in KillOutcomes : poll_iteration(c, o)
    \/ \E c \in Calls : await_done(c)
    \/ \E c \in Calls, o \in KillOutcomes : await_kill_timeout(c, o)
    \/ \E c \in Calls, o1, o2 \in KillOutcomes : task_cancelled(c, o1, o2)
    \/ \E t \in Tasks, o \in KillOutcomes : stop_parse(t, o)
    \/ \E c \in Calls : child_write(c)
    \/ \E c \in Calls, code \in {0, 1} : child_exit(c, code)
    \/ \E c \in Calls : child_dies(c)

Spec == Init /\ [][Next]_vars

\* What the scheduling gives: the event loop resumes every coroutine that is ready
\* (a sleep that has run out, a future that has a result, a wait_for whose 5 s are
\* over, a CancelledError to deliver), and a group that was sent SIGKILL ends.
\* Requests, the stop of the server and the progress of a child are not forced.
Fairness ==
    \A c \in Calls :
        /\ WF_vars(\E o \in KillOutcomes : poll_iteration(c, o))
        /\ WF_vars(await_done(c))
        /\ WF_vars(\E o \in KillOutcomes : await_kill_timeout(c, o))
        /\ WF_vars(~serving /\ \E o1, o2 \in KillOutcomes : task_cancelled(c, o1, o2))
        /\ WF_vars(child_dies(c))

SpecLive == Init /\ [][Next]_vars /\ Fairness

(* ------------------ result extraction on its own ----------------------- *)
\* all stdout streams of at most n lines
RECURSIVE Streams(_)
Streams(n) ==
    IF n = 0 THEN { << >> }
    ELSE LET shorter == Streams(n - 1) IN
         shorter \cup { Append(s, l) : s \in { x \in shorter : Len(x) = n - 1 }, l \in Lines }

\* a child has exited with status 0, nothing was cancelled, its stdout is ext_in
InitExtract ==
    /\ parse_tasks = [t \in Tasks |-> "none"]
    /\ cancel_events = [t \in Tasks |-> "absent"]
    /\ cancel_signal = {}
    /\ _running_processes = [t \in Tasks |-> NoCall]
    /\ InitCalls
    /\ serving = TRUE
    /\ ext_in \in Streams(MaxLen)
    /\ ext_out = [done |-> FALSE, value |-> NoResult]
    /\ flow = NoFlow
    /\ argv = NoArgv
    /\ wrk = NoWrk
    /\ pg = NoPg
    /\ AuxAtRest

\* pool.py 639-662 applied to ext_in
extract ==
    /\ ~ext_out.done
    /\ ext_out' = [done |-> TRUE, value |-> extract_result(ext_in)]
    /\ UNCHANGED << taskVars, callVars, process, todo, pipe, histVars, poll_saw,
                    serving, ext_in, flow, argv, wrk, pg, auxVars >>

NextExtract == extract

SpecExtract == InitExtract /\ [][NextExtract]_vars

(* -------------- one call of parse_pdf_in_process with faults ----------- *)
\* every variable of the supervisor proper, and its state with no call begun
poolVars == << taskVars, callVars, process, todo, pipe, histVars, poll_saw, serving >>

PoolAtRest ==
    /\ parse_tasks = [t \in Tasks |-> "none"]
    /\ cancel_events = [t \in Tasks |-> "absent"]
    /\ cancel_signal = {}
    /\ _running_processes = [t \in Tasks |-> NoCall]
    /\ InitCalls
    /\ serving = TRUE

InitFault ==
    /\ PoolAtRest
    /\ ext_in = << >>
    /\ ext_out = [done |-> FALSE, value |-> NoResult]
    /\ flow \in { [plan |-> f, stage |-> "entry", outcome |-> "running", result |-> NoResult] :
                     f \in Plans }
    /\ argv = NoArgv
    /\ wrk = NoWrk
    /\ pg = NoPg
    /\ AuxAtRest

\* the function is left by an exception nobody in it handles
propagate == flow' = [flow EXCEPT !.stage = "left", !.outcome = "raised", !.result = NoResult]

\* the function is left by a return statement outside the try of 508
return_now(res) == flow' = [flow EXCEPT !.stage = "left", !.outcome = "returned", !.result = res]

\* a return statement inside the try of 508: the value waits for the finally
return_through_finally(res) == flow' = [flow EXCEPT !.stage = "cleanup", !.result = res]

\* pool.py 376-437: nothing around _clear_cancel_signal and the command line
flow_entry ==
    /\ flow.stage = "entry"
    /\ IF flow.plan["entry"] = "error"
          THEN propagate
          ELSE flow' = [flow EXCEPT !.stage = "spawn"]
    /\ UNCHANGED << poolVars, ext_in, ext_out, argv, wrk, pg, auxVars >>

\* pool.py 480-497: Popen in its own try, the handler returns at once
flow_spawn ==
    /\ flow.stage = "spawn"
    /\ IF flow.plan["spawn"] = "error"
          THEN return_now(SpawnErrorResult)
          ELSE flow' = [flow EXCEPT !.stage = "attach"]
    /\ UNCHANGED << poolVars, ext_in, ext_out, argv, wrk, pg, auxVars >>

\* pool.py 499-506: registry entry and stderr interceptor, before the try of 508
flow_attach ==
    /\ flow.stage = "attach"
    /\ IF flow.plan["attach"] = "error"
          THEN propagate
          ELSE flow' = [flow EXCEPT !.stage = "poll"]
    /\ UNCHANGED << poolVars, ext_in, ext_out, argv, wrk, pg, auxVars >>

\* pool.py 508-571 with the handlers of 671-687
flow_poll ==
    /\ flow.stage = "poll"
    /\ CASE flow.plan["poll"] = "error"  -> return_through_finally(ExceptionResult)
         [] flow.plan["poll"] = "cancel" -> return_through_finally(TaskCancelledResult)
         [] OTHER                        -> flow' = [flow EXCEPT !.stage = "verdict"]
    /\ UNCHANGED << poolVars, ext_in, ext_out, argv, wrk, pg, auxVars >>

\* pool.py 572-637: a cancelled or failed run returns here, a clean exit goes on
flow_verdict ==
    /\ flow.stage = "verdict"
    /\ IF flow.plan["verdict"] = "error"
          THEN return_through_finally(ExceptionResult)
          ELSE \/ \E res \in {CancelledResult, exit_failure(<< >>)} :
                     return_through_finally(res)
               \/ flow' = [flow EXCEPT !.stage = "extract"]
    /\ UNCHANGED << poolVars, ext_in, ext_out, argv, wrk, pg, auxVars >>

\* pool.py 639-669
flow_extract ==
    /\ flow.stage = "extract"
    /\ IF flow.plan["extract"] = "error"
          THEN return_through_finally(ParseErrorResult)
          ELSE \E s \in Streams(1) : return_through_finally(extract_result(s))
    /\ UNCHANGED << poolVars, ext_in, ext_out, argv, wrk, pg, auxVars >>

\* pool.py 689-703: the finally; an exception raised in it replaces the value
\* that was waiting to be returned
flow_cleanup ==
    /\ flow.stage = "cleanup"
    /\ IF flow.plan["cleanup"] = "error"
          THEN propagate
          ELSE flow' = [flow EXCEPT !.stage = "left", !.outcome = "returned"]
    /\ UNCHANGED << poolVars, ext_in, ext_out, argv, wrk, pg, auxVars >>

NextFault ==
    \/ flow_entry
    \/ flow_spawn
    \/ flow_attach
    \/ flow_poll
    \/ flow_verdict
    \/ flow_extract
    \/ flow_cleanup

SpecFault == InitFault /\ [][NextFault]_vars

(* ------------------- the command line and its parser ------------------- *)
\* how the child is found: the packaged worker or the interpreter with the
\* wrapper script, each present or not on disk (pool.py 384, 399, 431)
Modes == { "exe", "exe_missing", "script", "script_missing" }

Inputs == [ pdf_path : {"a.pdf", "b.pdf"}, output_dir : {"out1", "out2"},
            config_path : {"mineru.json"}, doc_id : {"d1", "d2"},
            device : {"cpu", "cuda"}, task_id : Tasks ]

InitArgv ==
    /\ PoolAtRest
    /\ ext_in = << >>
    /\ ext_out = [done |-> FALSE, value |-> NoResult]
    /\ flow = NoFlow
    /\ argv \in { [mode |-> m, inp |-> a, stage |-> "args", cmd |-> << >>, parsed |-> NoParsed] :
                    m \in Modes, a \in Inputs }
    /\ wrk = NoWrk
    /\ pg = NoPg
    /\ AuxAtRest

\* pool.py 386-437: the list is built, then a missing executable or script ends
\* the call before Popen
argv_build ==
    /\ argv.stage = "args"
    /\ argv' = [argv EXCEPT !.cmd = build_cmd(argv.mode, argv.inp),
                            !.stage = IF argv.mode \in {"exe_missing", "script_missing"}
                                        THEN "refused" ELSE "built"]
    /\ UNCHANGED << poolVars, ext_in, ext_out, flow, wrk, pg, auxVars >>

\* pdf_wrapper.py 276-287: the child started from the script parses its arguments
argv_parse ==
    /\ argv.stage = "built"
    /\ argv.mode = "script"
    /\ argv' = [argv EXCEPT !.parsed = parse_args(argv.cmd), !.stage = "parsed"]
    /\ UNCHANGED << poolVars, ext_in, ext_out, flow, wrk, pg, auxVars >>

NextArgv ==
    \/ argv_build
    \/ argv_parse

SpecArgv == InitArgv /\ [][NextArgv]_vars

(* ----------------------------- the worker ------------------------------ *)
WrkPlans == [ args_ok : BOOLEAN, pdf_exists : BOOLEAN, cancel_check_file : BOOLEAN,
              raise_at : RaisePoints ]

InitWrk ==
    /\ PoolAtRest
    /\ ext_in = << >>
    /\ ext_out = [done |-> FALSE, value |-> NoResult]
    /\ flow = NoFlow
    /\ argv = NoArgv
    /\ wrk \in { [plan |-> f, stage |-> "args", marker |-> FALSE, printed |-> << >>, exit |-> -1] :
                   f \in WrkPlans }
    /\ pg = NoPg
    /\ AuxAtRest

\* print(json.dumps(...)) followed by return code / sys.exit(code)
wrk_ends(record, code) ==
    wrk' = [wrk EXCEPT !.stage = "ended", !.printed = Append(@, record), !.exit = code]

wrk_goes(stage) == wrk' = [wrk EXCEPT !.stage = stage]

\* pdf_wrapper.py 421-429: the handler of the try of 308
wrk_except == wrk_ends("failure", 1)

\* pdf_wrapper.py 349, 381
wrk_sees_marker == wrk.plan.cancel_check_file /\ wrk.marker

\* pdf_wrapper.py 263-287
wrk_parse_args ==
    /\ wrk.stage = "args"
    /\ IF wrk.plan.args_ok THEN wrk_goes("exists") ELSE wrk_ends("failure", 1)
    /\ UNCHANGED << poolVars, ext_in, ext_out, flow, argv, pg, auxVars >>

\* pdf_wrapper.py 289-306
wrk_check_pdf ==
    /\ wrk.stage = "exists"
    /\ IF wrk.plan.pdf_exists THEN wrk_goes("load") ELSE wrk_ends("failure", 1)
    /\ UNCHANGED << poolVars, ext_in, ext_out, flow, argv, pg, auxVars >>

\* pdf_wrapper.py 308-345
wrk_load ==
    /\ wrk.stage = "load"
    /\ IF wrk.plan.raise_at = "load" THEN wrk_except ELSE wrk_goes("check_before")
    /\ UNCHANGED << poolVars, ext_in, ext_out, flow, argv, pg, auxVars >>

\* pdf_wrapper.py 348-356
wrk_check_before ==
    /\ wrk.stage = "check_before"
    /\ IF wrk_sees_marker THEN wrk_ends("cancelled", 0) ELSE wrk_goes("do_parse")
    /\ UNCHANGED << poolVars, ext_in, ext_out, flow, argv, pg, auxVars >>

\* pdf_wrapper.py 358-377
wrk_do_parse ==
    /\ wrk.stage = "do_parse"
    /\ IF wrk.plan.raise_at = "do_parse" THEN wrk_except ELSE wrk_goes("check_after")
    /\ UNCHANGED << poolVars, ext_in, ext_out, flow, argv, pg, auxVars >>

\* pdf_wrapper.py 380-388
wrk_check_after ==
    /\ wrk.stage = "check_after"
    /\ IF wrk_sees_marker THEN wrk_ends("cancelled", 0) ELSE wrk_goes("collect")
    /\ UNCHANGED << poolVars, ext_in, ext_out, flow, argv, pg, auxVars >>

\* pdf_wrapper.py 390-419: the record is printed at 417, the log call of 418
\* still lies inside the try
wrk_collect ==
    /\ wrk.stage = "collect"
    /\ CASE wrk.plan.raise_at = "collect"   -> wrk_except
         [] wrk.plan.raise_at = "final_log" ->
                wrk' = [wrk EXCEPT !.stage = "ended", !.exit = 1,
                                   !.printed = @ \o << "success", "failure" >>]
         [] OTHER                           -> wrk_ends("success", 0)
    /\ UNCHANGED << poolVars, ext_in, ext_out, flow, argv, pg, auxVars >>

\* pool.py 42-46 seen from the child: the parent creates the signal file
wrk_marker_appears ==
    /\ wrk.stage \notin {"off", "ended"}
    /\ ~wrk.marker
    /\ wrk' = [wrk EXCEPT !.marker = TRUE]
    /\ UNCHANGED << poolVars, ext_in, ext_out, flow, argv, pg, auxVars >>

NextWrk ==
    \/ wrk_parse_args
    \/ wrk_check_pdf
    \/ wrk_load
    \/ wrk_check_before
    \/ wrk_do_parse
    \/ wrk_check_after
    \/ wrk_collect
    \/ wrk_marker_appears

SpecWrk == InitWrk /\ [][NextWrk]_vars

(* ---------------------- PostgresManager at work ------------------------ *)
InitPg ==
    /\ PoolAtRest
    /\ ext_in = << >>
    /\ ext_out = [done |-> FALSE, value |-> NoResult]
    /\ flow = NoFlow
    /\ argv = NoArgv
    /\ wrk = NoWrk
    /\ pg \in { [NoPg EXCEPT !.pc = "idle", !.installed = i, !.data = d, !.pid_file = f] :
                  i \in BOOLEAN, d \in {"absent", "good", "corrupt"},
                  f \in {"absent", "stale"} }
    /\ AuxAtRest

\* a public method is entered: what is written down about a call starts afresh
enter(p, op) ==
    [p EXCEPT !.op = op, !.began = _check_status_via_pg_ctl(p), !.touched = {},
              !.repairs = 0, !.retries = 0, !.wait_reason = "none", !.wait_at = 0,
              !.repair_on = "none", !.phase = "first", !.elapsed = 0, !.iter_at = 0,
              !.ret = "none", !.stopped = NoStop]

\* postgres_manager.py 281-371: start() up to the readiness wait
start(initdb_ok) ==
    /\ pg.pc = "idle"
    /\ LET p0 == enter(pg, "start")
           p1 == IF is_initialized(p0) THEN [p0 EXCEPT !.rv = TRUE]
                                       ELSE init_database(p0, initdb_ok)
       IN  pg' = IF ~is_installed(p0) THEN returns(p0, FALSE)
                 ELSE IF is_running(p0) THEN returns(p0, TRUE)
                 ELSE IF ~p1.rv THEN returns(p1, FALSE)
                 ELSE [pg_ctl_start(_setup_postgresql_conf(p1)) EXCEPT !.pc = "wait"]
    /\ UNCHANGED << poolVars, ext_in, ext_out, flow, argv, wrk, auxVars >>

\* postgres_manager.py 444-511: the loop test and one iteration, which takes d
\* ticks when the query fails; a False goes to 374-388 or to 768-770
_wait_for_ready(d) ==
    /\ pg.pc = "wait"
    /\ LET failed(reason) ==
               LET q == [pg EXCEPT !.wait_reason = reason, !.wait_at = pg.elapsed]
               IN  IF after_wait_failed(pg.phase) = "repair"
                   THEN [q EXCEPT !.pc = "repair"]
                   ELSE returns(q, FALSE)
       IN  pg' = IF ~loop_continues(pg.elapsed, timeout_of(pg.phase))
                   THEN failed("timeout")
                 ELSE IF ~is_running(pg)
                   THEN [failed("dead") EXCEPT !.iter_at = pg.elapsed]
                 ELSE IF pg.srv = "up"
                   THEN [pg EXCEPT !.iter_at = pg.elapsed, !.wait_reason = "ready",
                                   !.wait_at = pg.elapsed, !.pc = "created"]
                 ELSE [pg EXCEPT !.iter_at = pg.elapsed, !.elapsed = pg.elapsed + d]
    /\ UNCHANGED << poolVars, ext_in, ext_out, flow, argv, wrk, auxVars >>

\* postgres_manager.py 375-388: stop(), then _auto_reset_data_dir()
auto_repair(g, move_ok, rmtree_ok, initdb_ok) ==
    /\ pg.pc = "repair"
    /\ g \in GracefulOutcomes(pg)
    /\ LET p1 == stop(pg, g)
           p2 == _auto_reset_data_dir([p1 EXCEPT !.repairs = bump(@),
                                                 !.repair_on = pg.wait_reason],
                                      move_ok, rmtree_ok, initdb_ok)
       IN  pg' = IF p2.rv THEN [p2 EXCEPT !.pc = "retry"] ELSE returns(p2, FALSE)
    /\ UNCHANGED << poolVars, ext_in, ext_out, flow, argv, wrk, auxVars >>

\* postgres_manager.py 735-765: _retry_start() up to its readiness wait; rc_ok is
\* the exit status of pg_ctl start
_retry_start(rc_ok) ==
    /\ pg.pc = "retry"
    /\ LET p0 == [pg EXCEPT !.retries = bump(@), !.phase = "retry", !.elapsed = 0,
                            !.iter_at = 0, !.wait_reason = "none", !.wait_at = 0]
           p1 == pg_ctl_start(_setup_postgresql_conf(p0))
       IN  pg' = IF rc_ok THEN [p1 EXCEPT !.pc = "wait"] ELSE returns(p1, FALSE)
    /\ UNCHANGED << poolVars, ext_in, ext_out, flow, argv, wrk, auxVars >>

\* postgres_manager.py 390-407 and 771-778: _create_database(), _save_pid()
finish_start(db_ok) ==
    /\ pg.pc = "created"
    /\ pg' = IF db_ok THEN returns(_save_pid(pg), TRUE) ELSE returns(pg, FALSE)
    /\ UNCHANGED << poolVars, ext_in, ext_out, flow, argv, wrk, auxVars >>

\* postgres_manager.py 603-661: stop() called from outside
call_stop(g) ==
    /\ pg.pc = "idle"
    /\ g \in GracefulOutcomes(pg)
    /\ pg' = stop(enter(pg, "stop"), g)
    /\ UNCHANGED << poolVars, ext_in, ext_out, flow, argv, wrk, auxVars >>

\* the server writes postmaster.pid, then accepts connections
srv_progress ==
    /\ ~pg.moved
    /\ \/ pg.srv = "launched" /\ pg' = [pg EXCEPT !.srv = "starting"]
       \/ pg.srv = "starting" /\ pg.data = "good" /\ pg' = [pg EXCEPT !.srv = "up"]
    /\ UNCHANGED << poolVars, ext_in, ext_out, flow, argv, wrk, auxVars >>

\* the server process ends on its own
srv_dies ==
    /\ pg.srv # "down"
    /\ pg' = [pg EXCEPT !.srv = "down", !.moved = FALSE,
                        !.pid_file = IF @ = "current" THEN "stale" ELSE @]
    /\ UNCHANGED << poolVars, ext_in, ext_out, flow, argv, wrk, auxVars >>

\* the operating system gives the pid in a stale postgres.pid to a new process
pid_reuse ==
    /\ pg.pid_file = "stale"
    /\ ~pg.reused
    /\ pg' = [pg EXCEPT !.reused = TRUE]
    /\ UNCHANGED << poolVars, ext_in, ext_out, flow, argv, wrk, auxVars >>

NextPg ==
    \/ \E b \in BOOLEAN : start(b)
    \/ \E d \in 1..MaxStep : _wait_for_ready(d)
    \/ \E g \in {"ok", "fail", "timeout", "notrunning"}, m, r, i \in BOOLEAN :
           auto_repair(g, m, r, i)
    \/ \E b \in BOOLEAN : _retry_start(b)
    \/ \E b \in BOOLEAN : finish_start(b)
    \/ \E g \in {"ok", "fail", "timeout", "notrunning"} : call_stop(g)
    \/ srv_progress
    \/ srv_dies
    \/ pid_reuse

SpecPg == InitPg /\ [][NextPg]_vars

(* ------------------------ is_running() applied ------------------------- *)
\* the variables no action of the functions looked at one by one changes
sysVars == << poolVars, ext_in, ext_out, flow, argv, wrk, pg >>

\* what the actions on probe leave alone, and where that starts
othersProbe == << sysVars, lk, pre, rep, kt, li >>

RestButProbe ==
    /\ PoolAtRest
    /\ ext_in = << >>
    /\ ext_out = [done |-> FALSE, value |-> NoResult]
    /\ flow = NoFlow
    /\ argv = NoArgv
    /\ wrk = NoWrk
    /\ pg = NoPg
    /\ lk = NoLk
    /\ pre = NoPre
    /\ rep = NoRep
    /\ kt = NoKt
    /\ li = NoLi

InitProbe ==
    /\ RestButProbe
    /\ probe \in { [file |-> f, st |-> r, out |-> "none"] : f \in PidFiles, r \in StatusRuns }

\* postgres_manager.py 82-104
probe_is_running ==
    /\ probe.out = "none"
    /\ probe' = [probe EXCEPT !.out = is_running_once(probe.file, probe.st)]
    /\ UNCHANGED othersProbe

NextProbe == probe_is_running

SpecProbe == InitProbe /\ [][NextProbe]_vars

(* ---------------------- _process_lock at work -------------------------- *)
\* what the actions on lk leave alone, and where that starts
othersLock == << sysVars, probe, pre, rep, kt, li >>

RestButLock ==
    /\ PoolAtRest
    /\ ext_in = << >>
    /\ ext_out = [done |-> FALSE, value |-> NoResult]
    /\ flow = NoFlow
    /\ argv = NoArgv
    /\ wrk = NoWrk
    /\ pg = NoPg
    /\ probe = NoProbe
    /\ pre = NoPre
    /\ rep = NoRep
    /\ kt = NoKt
    /\ li = NoLi

InitLock ==
    /\ RestButLock
    /\ lk = [NoLk EXCEPT !.at = [th \in LockThreads |-> "idle"]]

\* a thread reaches one of the with blocks; it goes in when the lock is free
lk_enter(th, op, t) ==
    /\ lk.at[th] = "idle"
    /\ op \in LockOps(th)
    /\ lk.holder = "none"
    /\ lk' = [with_lock(lk, th) EXCEPT !.at[th] = op, !.tgt[th] = t]
    /\ UNCHANGED othersLock

\* pool.py 501
lk_register(th) ==
    /\ lk.at[th] = "register"
    /\ lk' = [touch_map(lk, th) EXCEPT !.map = @ \cup {lk.tgt[th]}, !.at[th] = "leave"]
    /\ UNCHANGED othersLock

\* pool.py 695
lk_remove(th) ==
    /\ lk.at[th] = "remove"
    /\ lk' = [touch_map(lk, th) EXCEPT !.map = @ \ {lk.tgt[th]}, !.at[th] = "leave"]
    /\ UNCHANGED othersLock

\* pool.py 141-142: the membership test and the read
lk_lookup(th) ==
    /\ lk.at[th] = "lookup"
    /\ lk' = [touch_map(lk, th) EXCEPT
                 !.at[th] = IF lk.tgt[th] \in lk.map THEN "kill" ELSE "leave"]
    /\ UNCHANGED othersLock

\* pool.py 143-146: _kill_process_tree, still inside the with block
lk_kill(th) ==
    /\ lk.at[th] = "kill"
    /\ lk' = [lk EXCEPT !.at[th] = "leave"]
    /\ UNCHANGED othersLock

\* the with block is left
lk_leave(th) ==
    /\ lk.at[th] = "leave"
    /\ lk' = [release(lk, th) EXCEPT !.at[th] = "idle"]
    /\ UNCHANGED othersLock

NextLock ==
    \/ \E th \in LockThreads, op \in {"register", "remove", "lookup"}, t \in LockTasks :
          lk_enter(th, op, t)
    \/ \E th \in LockThreads : lk_register(th)
    \/ \E th \in LockThreads : lk_remove(th)
    \/ \E th \in LockThreads : lk_lookup(th)
    \/ \E th \in LockThreads : lk_kill(th)
    \/ \E th \in LockThreads : lk_leave(th)

SpecLock == InitLock /\ [][NextLock]_vars

(* ------------------ the checks before and after the spawn -------------- *)
\* what the actions on pre leave alone, and where that starts
othersPre == << sysVars, probe, lk, rep, kt, li >>

RestButPre ==
    /\ PoolAtRest
    /\ ext_in = << >>
    /\ ext_out = [done |-> FALSE, value |-> NoResult]
    /\ flow = NoFlow
    /\ argv = NoArgv
    /\ wrk = NoWrk
    /\ pg = NoPg
    /\ probe = NoProbe
    /\ lk = NoLk
    /\ rep = NoRep
    /\ kt = NoKt
    /\ li = NoLi

InitPre ==
    /\ RestButPre
    /\ pre \in { [NoPre EXCEPT !.mode = m, !.inp = a, !.pdf_exists = e, !.popen_ok = o,
                               !.stage = "entry"] :
                   m \in Modes, a \in Inputs, e \in BOOLEAN, o \in BOOLEAN }

\* pool.py 376-437
pre_check ==
    /\ pre.stage = "entry"
    /\ LET r == precheck(pre.mode, pre.pdf_exists)
       IN  pre' = IF r # NoResult THEN [pre EXCEPT !.stage = "returned", !.result = r]
                  ELSE [pre EXCEPT !.stage = "popen"]
    /\ UNCHANGED othersPre

\* pool.py 480-497
pre_popen ==
    /\ pre.stage = "popen"
    /\ pre' = IF pre.popen_ok THEN [pre EXCEPT !.stage = "child", !.spawned = TRUE]
              ELSE [pre EXCEPT !.stage = "returned", !.result = SpawnErrorResult]
    /\ UNCHANGED othersPre

\* pdf_wrapper.py 276-306 in the child started from the script, and the record
\* it prints as the parent returns it (pool.py 612-637)
pre_child ==
    /\ pre.stage = "child"
    /\ pre' = IF pre.mode = "script" /\ ~parse_args(build_cmd(pre.mode, pre.inp)).ok
                THEN [pre EXCEPT !.stage = "returned", !.result = ChildArgsResult]
              ELSE IF ~pre.pdf_exists
                THEN [pre EXCEPT !.stage = "returned", !.result = ChildPdfMissingResult]
              ELSE [pre EXCEPT !.stage = "parsing"]
    /\ UNCHANGED othersPre

NextPre ==
    \/ pre_check
    \/ pre_popen
    \/ pre_child

SpecPre == InitPre /\ [][NextPre]_vars

(* ------------------- the report of an ended child, applied ------------- *)
\* what the actions on rep leave alone, and where that starts
othersRep == << sysVars, probe, lk, pre, kt, li >>

RestButRep ==
    /\ PoolAtRest
    /\ ext_in = << >>
    /\ ext_out = [done |-> FALSE, value |-> NoResult]
    /\ flow = NoFlow
    /\ argv = NoArgv
    /\ wrk = NoWrk
    /\ pg = NoPg
    /\ probe = NoProbe
    /\ lk = NoLk
    /\ pre = NoPre
    /\ kt = NoKt
    /\ li = NoLi

StderrStreams ==
    { << >> } \cup { << a >> : a \in StderrLines }
              \cup { << a, b >> : a \in StderrLines, b \in StderrLines }

InitRep ==
    /\ RestButRep
    /\ rep \in { [NoRep EXCEPT !.returncode = c, !.stdout = o, !.stderr = e] :
                   c \in {0, 1, -9}, o \in Streams(RepLen), e \in StderrStreams }

\* pool.py 592-662
rep_report ==
    /\ ~rep.done
    /\ rep' = [rep EXCEPT !.done = TRUE,
                          !.out = report(rep.returncode, rep.stdout, rep.stderr)]
    /\ UNCHANGED othersRep

NextRep == rep_report

SpecRep == InitRep /\ [][NextRep]_vars

(* ------------------- _kill_process_tree at work ------------------------ *)
\* what the actions on kt leave alone, and where that starts
othersKt == << sysVars, probe, lk, pre, rep, li >>

RestButKt ==
    /\ PoolAtRest
    /\ ext_in = << >>
    /\ ext_out = [done |-> FALSE, value |-> NoResult]
    /\ flow = NoFlow
    /\ argv = NoArgv
    /\ wrk = NoWrk
    /\ pg = NoPg
    /\ probe = NoProbe
    /\ lk = NoLk
    /\ pre = NoPre
    /\ rep = NoRep
    /\ li = NoLi

InitKt ==
    /\ RestButKt
    /\ kt \in { [NoKt EXCEPT !.plan = f, !.stage = "entry", !.child = f.child, !.hlp = f.hlp] :
                  f \in KtPlans }

\* pool.py 61-63 and 91-94, 109-119: poll(), getpgid, killpg(SIGTERM)
kt_sigterm ==
    /\ kt.stage = "entry"
    /\ kt' = CASE kt.child = "exited" -> kt_returns(kt, TRUE)
               [] kt.plan.killpg = "lookup" -> kt_returns([kt EXCEPT !.child = "exited"], TRUE)
               [] kt.plan.killpg = "perm" -> kt_fallback(kt)
               [] OTHER -> [kt EXCEPT !.stage = "wait3"]
    /\ UNCHANGED othersKt

\* pool.py 96-101: process.wait(timeout=3)
kt_wait3 ==
    /\ kt.stage = "wait3"
    /\ kt' = IF kt.plan.term_child
               THEN kt_returns([kt EXCEPT !.child = "exited",
                                          !.hlp = @ /\ ~kt.plan.term_hlp], TRUE)
               ELSE [kt EXCEPT !.stage = "sigkill", !.hlp = @ /\ ~kt.plan.term_hlp]
    /\ UNCHANGED othersKt

\* pool.py 103-107: killpg(SIGKILL), process.wait(timeout=1); a TimeoutExpired
\* of that wait goes to the handler of 112
kt_sigkill ==
    /\ kt.stage = "sigkill"
    /\ kt' = IF kt.plan.kill_seen
               THEN kt_returns([kt EXCEPT !.child = "exited", !.hlp = FALSE], TRUE)
               ELSE kt_fallback([kt EXCEPT !.child = "signalled", !.hlp = FALSE])
    /\ UNCHANGED othersKt

NextKt ==
    \/ kt_sigterm
    \/ kt_wait3
    \/ kt_sigkill

SpecKt == InitKt /\ [][NextKt]_vars

(* ---------------------- the stderr reader at work ---------------------- *)
\* what the actions on li leave alone, and where that starts
othersLi == << sysVars, probe, lk, pre, rep, kt >>

RestButLi ==
    /\ PoolAtRest
    /\ ext_in = << >>
    /\ ext_out = [done |-> FALSE, value |-> NoResult]
    /\ flow = NoFlow
    /\ argv = NoArgv
    /\ wrk = NoWrk
    /\ pg = NoPg
    /\ probe = NoProbe
    /\ lk = NoLk
    /\ pre = NoPre
    /\ rep = NoRep
    /\ kt = NoKt

\* pool.py 503-506: the thread is started on the stderr pipe of a child that runs
\* and has written nothing yet
InitLi ==
    /\ RestButLi
    /\ li \in { [NoLi EXCEPT !.script = q, !.child = "running", !.pc = "test"] :
                  q \in StderrScripts }

\* the child writes its next stderr line
li_child_write ==
    /\ li.child = "running"
    /\ li.at < Len(li.script)
    /\ li' = [li EXCEPT !.at = @ + 1, !.unread = Append(@, li.at + 1)]
    /\ UNCHANGED othersLi

\* the child has written all its lines and exits; the write end of the pipe closes
li_child_exit ==
    /\ li.child = "running"
    /\ li.at = Len(li.script)
    /\ li' = [li EXCEPT !.child = "exited"]
    /\ UNCHANGED othersLi

\* pool.py 304 and 345-349: 'while not self._stopped'; when the test fails the
\* finally closes the pipe with what is unread in it
li_loop_test ==
    /\ li.pc = "test"
    /\ li' = IF li._stopped THEN [li EXCEPT !.pc = "ended", !.unread = << >>]
             ELSE [li EXCEPT !.pc = "read"]
    /\ UNCHANGED othersLi

\* pool.py 307-341: readline() returns a line, or b'' at the end of the file
li_readline ==
    /\ li.pc = "read"
    /\ IF li.unread # << >>
       THEN LET n == Head(li.unread)
                h == handle_line(li.script[n]) IN
            li' = CASE h = "skip" -> [li EXCEPT !.unread = Tail(@), !.pc = "test"]
                    [] h = "forward" -> [li EXCEPT !.unread = Tail(@), !.pc = "test",
                                                   !.fwd = Append(@, n)]
                    [] OTHER -> [li EXCEPT !.unread = << >>, !.pc = "ended"]
       ELSE /\ li.child = "exited"
            /\ li' = [li EXCEPT !.pc = "ended"]
    /\ UNCHANGED othersLi

\* pool.py 573-574 with 350-356: the poll loop has seen the child's end and calls
\* stop(); the flag is set, the join waits 2 s at most for the thread
li_stop ==
    /\ li.child = "exited"
    /\ li.pc # "off"
    /\ ~li._stopped
    /\ li' = [li EXCEPT !._stopped = TRUE]
    /\ UNCHANGED othersLi

NextLi ==
    \/ li_child_write
    \/ li_child_exit
    \/ li_loop_test
    \/ li_readline
    \/ li_stop

SpecLi == InitLi /\ [][NextLi]_vars

(* ------------------------------ properties ----------------------------- *)
\* the call has returned from parse_pdf_in_process after it had spawned a child
Returned(c) == pc[c] = "done" /\ process[c].st # "none"

\* the child of the call ended by itself with exit status 0
ExitedZero(c) == process[c].st = "exited" /\ process[c].code = 0

\* C1: for every task id at most one child is alive at any time, and a call that
\* finds a live registered child under its id spawns nothing
C1_SingleProcessPerId ==
    /\ \A c \in Calls : dup[c] => process[c].st = "none"
    /\ \A c, d \in Calls :
          (c # d /\ task_of[c] = task_of[d]) => ~(Alive(process[c]) /\ Alive(process[d]))

\* C2: once a call that spawned a child has returned, the child is not alive
C2_NoChildLeftAfterReturn ==
    \A c \in Calls : Returned(c) => ~Alive(process[c])

\* the stop request reached the running, registered child of a call that is
\* still in flight
StopReached(c) == kill_req[c] /\ InFlight(c)

Blocked(c) ==
    /\ process[c].st = "running"
    /\ todo[c] # << >>
    /\ Len(pipe[c]) = PipeCap

\* C4: stdout is drained while the child runs, so no child ever waits in a write
\* to a full stdout pipe that nobody reads
C4_ChildNeverBlocked ==
    \A c \in Calls : ~Blocked(c)

\* C5: a child that ended by itself with status 0 after printing a result line,
\* in a call for which cancellation was never raised, gives the success result
C5_NaturalExitExtracts ==
    \A c \in Calls :
        (Returned(c) /\ ExitedZero(c) /\ ~raised[c]) => result[c] = extract_result(<< "ok1" >>)

\* a line that is a JSON object with a success field
IsResultLine(l) == l \in {"ok1", "ok2", "err"}

\* the record a result line stands for
RecordOf(l) ==
    CASE l = "ok1" -> MkResult(TRUE, FALSE, "", 1)
      [] l = "ok2" -> MkResult(TRUE, FALSE, "", 2)
      [] OTHER     -> MkResult(FALSE, FALSE, "boom", 0)

\* C6: extraction returns the record of the last stdout line that is a JSON object
\* with a success field, whatever lines precede it; in particular N non-result
\* lines followed by one result line give that record
C6_LastResultLineReturned ==
    ext_out.done =>
        \A i \in 1..Len(ext_in) :
            (IsResultLine(ext_in[i]) /\ \A j \in (i + 1)..Len(ext_in) : ~IsResultLine(ext_in[j]))
                => ext_out.value = RecordOf(ext_in[i])

\* extraction has run on noise lines followed by one result line
C6_Witness ==
    /\ ext_out.done
    /\ Len(ext_in) = MaxLen
    /\ \A i \in 1..(MaxLen - 1) : ~IsResultLine(ext_in[i])
    /\ ext_in[1] = "junk"
    /\ ext_in[MaxLen] = "ok2"
    /\ ext_out.value = RecordOf("ok2")

\* C7: when cancellation is raised for a call whose child ended by itself with
\* status 0, the call returns either a cancelled result or the completion result
C7_OneOutcomeOnRace ==
    \A c \in Calls :
        (Returned(c) /\ ExitedZero(c) /\ raised[c])
            => (result[c].cancelled \/ result[c] = extract_result(<< "ok1" >>))

C9_StaleMarkerIgnored ==
    \A c \in Calls :
        /\ (InFlight(c) /\ ~raised[c]) => task_of[c] \notin cancel_signal
        /\ result[c].cancelled => raised[c]

\* a call that began while a signal file of its id existed has spawned its child
\* and has returned a result that is not cancelled
C9_Witness ==
    \E c \in Calls :
        /\ stale[c]
        /\ Returned(c)
        /\ ~raised[c]
        /\ result[c].success

\* C10: a result carries cancelled exactly when cancellation was raised for the call
C10_CancelledIffRaised ==
    \A c \in Calls :
        (pc[c] = "done" /\ result[c] # NoResult) => (result[c].cancelled <=> raised[c])

\* C11: parse_pdf_in_process never lets an exception reach its caller; whatever
\* goes wrong (spawn, polling, output parsing, cleanup, task cancellation), the
\* call ends by returning a structured result.
C11_NothingPropagates ==
    flow.stage = "left" => ( flow.outcome = "returned" /\ flow.result # NoResult )

\* C12: the command line built for the child carries every option the worker's
\* entry point requires, so the entry point accepts it.
C12_RequiredArgsSupplied ==
    /\ argv.stage \in {"built", "refused", "parsed"} => Required \subseteq options_of(argv.cmd)
    /\ argv.stage = "parsed" => argv.parsed.ok

\* C13: the worker ends with status 0 only when the record it emitted is a
\* success record; when it stops on the cancellation marker, as on any other
\* failure, its status is not 0.
C13_ZeroOnlyOnSuccess ==
    wrk.stage = "ended" =>
        /\ wrk.exit = 0 => wrk.printed[Len(wrk.printed)] = "success"
        /\ wrk.printed[Len(wrk.printed)] = "cancelled" => wrk.exit # 0

\* the service runs: a postmaster operates on data_dir and has written its
\* postmaster.pid
ServiceRunning == _check_status_via_pg_ctl(pg)

\* C14: start() called while the service is already running returns true at
\* once; it neither initializes or changes the data directory, nor rewrites
\* the configuration, nor launches a process.
C14_StartWhenRunningTouchesNothing ==
    [][ ( ServiceRunning /\ \E b \in BOOLEAN : start(b) ) =>
            /\ pg'.pc = "idle"
            /\ pg'.ret = "true"
            /\ pg'.touched = {}
            /\ pg'.data = pg.data /\ pg'.backup = pg.backup /\ pg'.lost = pg.lost
            /\ pg'.conf = pg.conf
            /\ pg'.srv = pg.srv ]_vars

C14_Witness ==
    /\ pg.op = "start" /\ pg.began /\ pg.pc = "idle"
    /\ pg.ret = "true" /\ pg.touched = {} /\ pg.srv = "up"

\* C15: stop() called while the service is not running runs no stop command
\* and kills nothing, however often it is called.
C15_StopWhenDownIsNoop ==
    ( pg.stopped.seen /\ pg.stopped.began = "down" ) =>
        ( ~pg.stopped.cmd /\ pg.stopped.kill = "none" )

\* C16: one start() call repairs at most once and retries at most once; when
\* the retry does not become ready either, the call returns false and repairs
\* no more.
C16_OneRepairOneRetry ==
    /\ pg.repairs <= 1
    /\ pg.retries <= 1
    /\ ( pg.phase = "retry" /\ pg.wait_reason \in {"dead", "timeout"} ) =>
           ( pg.pc = "idle" /\ pg.ret = "false" )

C16_Witness ==
    /\ pg.op = "start" /\ pg.repairs = 1 /\ pg.retries = 1
    /\ pg.phase = "retry" /\ pg.wait_reason = "timeout"
    /\ pg.pc = "idle" /\ pg.ret = "false"

\* C17: the automatic repair is started only after the readiness wait has run
\* out its timeout, never because the wait ended on finding the server process
\* not alive.
C17_RepairOnlyAfterTimeout == pg.repair_on \in {"none", "timeout"}

\* C18: the automatic repair never removes a data directory without a backup
\* of it being kept.
C18_NeverDeletedWithoutBackup == ~pg.lost

\* C19: in stop() on a running service, a graceful stop that fails or times out
\* is followed by a kill, by pid, that hits the service.
C19_ForceKillAfterFailedStop ==
    ( pg.stopped.seen /\ pg.stopped.visible /\ pg.stopped.graceful \in {"fail", "timeout"} ) =>
        pg.stopped.kill = "server"

\* C20: _wait_for_ready returns true as soon as a query succeeds, returns false
\* in the very iteration that finds the server process not alive, returns false
\* otherwise only once the timeout has elapsed, and starts no iteration at or
\* after the timeout.
C20_WaitForReady ==
    /\ [] ( /\ pg.iter_at < timeout_of(pg.phase)
            /\ pg.wait_reason = "timeout" => pg.wait_at >= timeout_of(pg.phase)
            /\ pg.wait_reason \in {"dead", "ready"} =>
                   ( pg.wait_at = pg.iter_at /\ pg.wait_at < timeout_of(pg.phase) ) )
    /\ [][ ( \E d \in 1..MaxStep : _wait_for_ready(d) ) =>
              /\ ( pg.elapsed < timeout_of(pg.phase) /\ is_running(pg) /\ pg.srv = "up" )
                     => pg'.wait_reason = "ready"
              /\ ( pg.elapsed < timeout_of(pg.phase) /\ ~is_running(pg) )
                     => pg'.wait_reason = "dead"
              /\ pg'.wait_reason = "timeout" => pg.elapsed >= timeout_of(pg.phase) ]_vars

C20_Witness ==
    /\ pg.wait_reason = "timeout" /\ pg.iter_at > 0
    /\ pg.wait_at >= timeout_of(pg.phase)

C22_MapOnlyUnderLock ==
    /\ ~lk.bare
    /\ \A a, b \in LockThreads :
          ( a # b /\ lk.at[a] \notin {"off", "idle"} ) => lk.at[b] \in {"off", "idle"}
    /\ \A th \in LockThreads : lk.at[th] \notin {"off", "idle"} => lk.holder = th

C22_Witness ==
    /\ lk.touches /\ lk.at["req1"] = "kill" /\ lk.holder = "req1" /\ lk.map # {}

\* C23: a missing worker binary, a missing wrapper script and a missing input
\* file are each found before any child is spawned, and the call returns a
\* failure result for them.
C23_MissingFoundBeforeSpawn ==
    ( pre.mode \in {"exe_missing", "script_missing"} \/ ~pre.pdf_exists ) =>
        /\ ~pre.spawned
        /\ pre.stage \notin {"off", "entry"} =>
              ( pre.stage = "returned" /\ ~pre.result.success /\ pre.result # NoResult )

\* the failure is opaque: no result line could be taken from stdout, or the exit
\* code is not 0 and stdout holds no error record
OpaqueFailure ==
    \/ rep.returncode = 0 /\ extract_result(rep.stdout) = UnparsableResult
    \/ rep.returncode # 0 /\ last_with_key(split_lines(rep.stdout), "error") = 0

\* C24: an opaque failure is returned with the child's exit code and the
\* trailing stderr output in it.
C24_OpaqueFailureCarriesContext ==
    ( rep.done /\ OpaqueFailure ) =>
        /\ ~rep.out.res.success
        /\ rep.out.names_code
        /\ rep.out.stderr_tail = rep.stderr

\* C25: _kill_process_tree returns true only when the child's exit status is
\* available and none of its descendants lives; when the end could not be
\* confirmed it returns false.
C25_TrueOnlyWhenConfirmed ==
    kt.stage = "returned" =>
        ( kt.ret = "true" <=> ( kt.child = "exited" /\ ~kt.hlp ) )

\* C26: a call that leaves the poll loop while the cancel flag of its task or the
\* cancellation marker is set returns the cancelled result, whatever the child
\* printed and however it ended; a result with success comes only when neither
\* is set at that moment
CancelSetAtLoopEnd(c) ==
    check_cancelled(task_of[c]) \/ task_of[c] \in cancel_signal

\* the call returns from one of its awaits while the server still serves (the
\* return is not the CancelledError of a stopping event loop)
LeavesLoop(c) == InFlight(c) /\ pc'[c] = "done" /\ serving'

C26_CancelSeenAtLoopEnd ==
    [][ \A c \in Calls :
          LeavesLoop(c) =>
              /\ CancelSetAtLoopEnd(c) => result'[c] = CancelledResult
              /\ result'[c].success => ~CancelSetAtLoopEnd(c) ]_vars

\* C27: the non-empty stderr lines of the child reach the log callback once each
\* and in the order written: what is forwarded is always a prefix of the
\* non-empty lines written so far, and once the child has exited and the reader
\* thread has ended it is all of them, also when stop() was called with lines
\* still unread in the pipe
C27_EveryLineForwarded ==
    /\ IsPrefix(li.fwd, non_empty(li.script, li.at))
    /\ (li.child = "exited" /\ li.pc = "ended") =>
           li.fwd = non_empty(li.script, Len(li.script))

\* the service process launched by start() lives on a sound data directory: left
\* alone it writes postmaster.pid and then answers the readiness query
WouldAnswer(p) == p.srv \in {"launched", "starting", "up"} /\ p.data = "good" /\ ~p.moved

\* C28: a launched service that would answer the readiness query is never
\* reported dead by the readiness wait, and the repair that follows a "dead"
\* report is not run on such a service (its data directory is not reset),
\* whether or not the service is already visible as running at the first
\* aliveness check
C28_LaunchedServiceNotReportedDead ==
    [][ /\ ( WouldAnswer(pg) /\ \E d \in 1..MaxStep : _wait_for_ready(d) )
               => pg'.wait_reason # "dead"
        /\ ( WouldAnswer(pg) /\ pg.pc = "repair" /\ pg.wait_reason = "dead"
                             /\ pg'.pc # "repair" )
               => pg'.repairs = pg.repairs ]_vars

\* start() has returned false after it had run the launch command
StartFailedAfterLaunch ==
    pg.op = "start" /\ pg.pc = "idle" /\ pg.ret = "false" /\ "launch" \in pg.touched

\* C29: after start() has returned false having launched the service, no
\* service process runs that has no saved PID (and with it no exit hook)
C29_FailedStartLeavesNoService ==
    StartFailedAfterLaunch => ( pg.srv = "down" \/ pg.pid_file = "current" )

\* postgres.pid is left over from an earlier run and its pid now belongs to a
\* process that is not the database service
LeftoverPidOfStranger == pg.pid_file = "stale" /\ pg.reused

\* C30: only the database service is taken for the service or signalled:
\* is_running() is true only while a service process exists, start() does not
\* return true on the strength of a leftover PID file whose pid belongs to an
\* unrelated process, and no stop kills such a process
C30_OnlyTheServiceIsTreated ==
    /\ [] ( is_running(pg) => pg.srv # "down" )
    /\ [] ( pg.stopped.kill # "other" )
    /\ [][ ( LeftoverPidOfStranger /\ pg.srv = "down" /\ \E b \in BOOLEAN : start(b) )
               => pg'.ret # "true" ]_vars

====
